---- MODULE Spec2Model ----
(***************************************************************************)
(* A model of github_explorer: the multi-threaded driver, the              *)
(* RepositoryHandler crawl loop, the APIHandler retry loop and the         *)
(* ReportHandler CSV report.                                               *)
(*                                                                         *)
(* Two specifications:                                                     *)
(*   Spec       the driver and its workers crawling the search service;    *)
(*              every remote call is one step whose result is computed by  *)
(*              running the retry loop over the outcomes the remote side   *)
(*              produces;                                                  *)
(*   SpecRetry  one call of APIHandler._makeAPICall, one loop iteration    *)
(*              per step.                                                  *)
(***************************************************************************)
EXTENDS Integers, Sequences, FiniteSets, TLC

VARIABLES
  cfg,      \* the command line: maxProcesses, clone, sourceStatements; and lastPage, the last non-empty page of the search service
  driver,   \* the driver's loop variable: how many threads it has started
  wk,       \* per thread: the locals of _task / RepositoryHandler.crawlRepositories
  report,   \* repository_report.csv: the sequence of its rows (<<>>: not created yet)
  disk,     \* the working directory: the set of <<directory name, clone url>> present
  hist,     \* history (ghost) variables: what each worker requested, probed, kept, appended
  call,     \* SpecRetry: the locals of one _makeAPICall invocation
  explorer  \* SpecStartup: a GitHubExplorer (github_explorer.py) or a GitHubCrawler (github_crawler.py) being constructed

vars == <<cfg, driver, wk, report, disk, hist, call, explorer>>

----------------------------------------------------------------------------
(* Bounds of the model *)

\* the driver is run with -m in 1..MaxWorkers
MaxWorkers == 2
\* the search service has at most MaxPages non-empty pages
MaxPages == 2
\* every non-empty page holds PageSize repositories
PageSize == 2
\* SpecRetry: the remote side fails up to MaxFailures times before it answers
MaxFailures == 12
\* the calls made one after the other on one handler
MaxCalls == 2

(* Program constants *)

\* api_handler.py: maxAttempts = 10
maxAttempts == 10
\* the "5 times" of _makeAPICall's docstring
DocstringRetries == 5
\* repository_handler.py, _cloneRepository: maxAttempts = 10
cloneMaxAttempts == 10

----------------------------------------------------------------------------
(* Python values as they appear in a row: every cell is one record shape,  *)
(* so that any two cells can be compared.                                  *)

PyInt(n) == [t |-> "int", i |-> n, s |-> ""]
PyBool(b) == [t |-> "bool", i |-> IF b THEN 1 ELSE 0, s |-> ""]
PyUnicode(x) == [t |-> "unicode", i |-> 0, s |-> x]
PyStr(x) == [t |-> "str", i |-> 0, s |-> x]

\* v.encode("utf-8"): defined on unicode and str, AttributeError on the rest
HasEncode(v) == v.t \in {"unicode", "str"}
Encode(v) == PyStr(v.s)

\* List of all recognized GitHub languages (the last entry is the sentinel "")
Languages ==
  <<"ActionScript", "Ada", "Arc", "ASP", "Assembly", "Boo", "C",
    "C#", "C++", "Clojure", "CoffeeScript", "ColdFusion", "Common Lisp", "D",
    "Delphi", "Duby", "Eiffel", "Emacs Lisp", "Erlang", "F#", "Factor",
    "FORTRAN", "Go", "Groovy", "Haskell", "HaXe", "Io", "Java", "JavaScript",
    "Lua", "Max/FMSP", "Nu", "Objective-C", "Objective-J", "OCaml", "ooc",
    "Perl", "PHP", "Pure Data", "Python", "R", "Racket", "Ruby", "Scala",
    "Scheme", "sclang", "Self", "Shell", "Smalltalk", "SuperCollider", "Tcl",
    "Vala", "Verilog", "VHDL", "VimL", "Visual Basic", "XQuery", "">>

\* The CSV column headers
Headers ==
  <<"created", "created_at", "description", "followers", "fork",
    "forks", "has_downloads", "has_issues", "has_wiki", "homepage",
    "master_branch", "name", "open_issues", "owner", "private", "pushed",
    "pushed_at", "score", "size", "type", "url", "username", "watchers">>

----------------------------------------------------------------------------
(* ReportHandler *)

\* list.pop(): the list without its last element
Pop(list) == SubSeq(list, 1, Len(list) - 1)

\* readyCSVReport: header = _headers + _languages, pop(), one writerow
HeaderNames == Pop(Headers \o Languages)
HeaderRow == [i \in 1..Len(HeaderNames) |-> PyStr(HeaderNames[i])]

\* A row of the report: its cells, and (history) the page and the position in
\* the page of the repository it was built from; <<0, 0>> for the header row
Row(cells, of) == [cells |-> cells, of |-> of]

\* open(_CSV_NAME, 'wb') truncates the file, then the header row is written
ReadyCSVReport(file) == <<Row(HeaderRow, <<0, 0>>)>>

\* a plausible slip: only the first row of the batch is written (writerow for writerows)
AppendCSVDataFirstRowOnly(file, data) ==
  IF data = <<>> THEN file ELSE Append(file, data[1])

\* a slip: the batch is written last row first
AppendCSVDataReversed(file, data) ==
  file \o [i \in 1..Len(data) |-> data[Len(data) + 1 - i]]

\* open(_CSV_NAME, 'a'); writerows(data)
AppendCSVData(file, data) == file \o data

----------------------------------------------------------------------------
(* APIHandler._makeAPICall *)

\* Python's None, and the JSON document a successful urlopen + json.load gives
None == [kind |-> "None"]
Json(doc) == [kind |-> "json", doc |-> doc]

\* What the remote side does to one call: it fails `fails` times with a
\* urllib2.URLError (HTTPError is one), and then either answers ("ok"), keeps
\* failing ("never"), or makes urlopen / json.load raise something that is not
\* a URLError ("other": socket.timeout while reading, ValueError on a body
\* that is not JSON, httplib.BadStatusLine).
Behaviour(n, then) == [fails |-> n, then |-> then]

NextOutcome(b) ==
  IF b.fails > 0 THEN "URLError"
  ELSE CASE b.then = "ok" -> "ok"
         [] b.then = "never" -> "URLError"
         [] b.then = "other" -> "other"

Consume(b) == IF b.fails > 0 THEN [b EXCEPT !.fails = b.fails - 1] ELSE b

\* currentAttempt = 0; maxAttempts = 10; successful = False; data = None
\* (sleeps counts the time.sleep(60) calls; status is where control is:
\* in the while loop, returned, or left by an uncaught exception)
ApiLocals ==
  [currentAttempt |-> 0, successful |-> FALSE, data |-> None, sleeps |-> 0,
   status |-> "loop"]

\* a slip: the retry test written with < for <=
RetryAllowedStrict(currentAttempt) == currentAttempt < maxAttempts

\* a slip: the bound of the docstring ("will occur 5 times") for maxAttempts
RetryAllowedDocstring(currentAttempt) == currentAttempt <= DocstringRetries

\* if currentAttempt <= maxAttempts:
RetryAllowed(currentAttempt) == currentAttempt <= maxAttempts

\* One iteration of `while not successful`: the try, and on a URLError the
\* except clause. Only urllib2.URLError is caught.
ApiIter(st, outcome, payload) ==
  CASE outcome = "ok" ->
         [st EXCEPT !.data = payload, !.successful = TRUE, !.status = "returned"]
    [] outcome = "URLError" ->
         LET a == st.currentAttempt + 1 IN
         IF RetryAllowed(a)
           THEN [st EXCEPT !.currentAttempt = a, !.sleeps = st.sleeps + 1]
           ELSE [st EXCEPT !.currentAttempt = a, !.status = "returned"]
    [] outcome = "other" ->
         [st EXCEPT !.status = "raised"]

\* The whole call against a remote side that behaves as b
RECURSIVE RunAPICall(_, _, _)
RunAPICall(st, b, payload) ==
  IF st.status # "loop" THEN st
  ELSE RunAPICall(ApiIter(st, NextOutcome(b), payload), Consume(b), payload)

MakeAPICall(b, payload) == RunAPICall(ApiLocals, b, payload)

\* getNextPage / getLanguages: None if the call gave None, else results[key]
\* (an uncaught exception of the call passes through)
Unwrap(res, key) ==
  IF res.status = "raised" THEN [kind |-> "raised"]
  ELSE IF res.data.kind = "None" THEN None
  ELSE [kind |-> "value", val |-> res.data.doc[key]]

\* The behaviours of the remote side the crawl is checked against: an answer
\* at once, an answer after one failure, failure for ever, an exception that
\* is no URLError.
RemoteBehaviours ==
  {Behaviour(0, "ok"), Behaviour(1, "ok"), Behaviour(0, "never"),
   Behaviour(0, "other")}

----------------------------------------------------------------------------
(* The remote service: search pages, repository summaries, language maps *)

Threads == 1..MaxWorkers

\* A repository summary of the search API: a dict from field names to values.
\* Fields of the header that the API leaves out are absent from the dict.
SummaryFields ==
  {"name", "owner", "url", "description", "fork", "followers", "size"}

\* n parts "r" joined by "_" (names and logins of GitHub may hold "_")
RECURSIVE Parts(_)
Parts(n) == IF n <= 1 THEN "r" ELSE Parts(n - 1) \o "_r"

\* the place of the repository at position k of page p among all the
\* repositories of the search
PlaceOf(p, k) == (p - 1) * PageSize + k

\* The name and the owner of the repository at position k of page p. No two
\* repositories of a search have the same (owner, name). In the service
\* "colliding" names and owners hold the character "_": repository n is
\* named r_..._r (n parts) and owned by r_..._r (the remaining parts).
RepoName(p, k) ==
  IF cfg.service = "colliding" THEN Parts(PlaceOf(p, k))
  ELSE "repo" \o ToString(k)
RepoOwner(p, k) ==
  IF cfg.service = "colliding"
    THEN Parts(MaxPages * PageSize + 1 - PlaceOf(p, k))
  ELSE "user" \o ToString(p)

Summary(p, k) ==
  [f \in SummaryFields |->
     CASE f = "name" -> PyUnicode(RepoName(p, k))
       [] f = "owner" -> PyUnicode(RepoOwner(p, k))
       [] f = "url" ->
            PyUnicode("https://github.com/" \o RepoOwner(p, k) \o "/" \o RepoName(p, k))
       [] f = "description" -> PyUnicode("a repository")
       [] f = "fork" -> PyBool(k = 2)
       [] f = "followers" -> PyInt(p)
       [] f = "size" -> PyInt(100 * p + k)]

\* results['repositories'] of page p: PageSize summaries up to the last
\* non-empty page, the empty list after it
SearchPage(p) ==
  IF p >= 1 /\ p <= cfg.lastPage
    THEN [k \in 1..PageSize |-> Summary(p, k)]
    ELSE <<>>

\* results['languages']: the language maps the probe answers with. What the
\* service holds is fixed for a run: every repository empty ("no content"),
\* or repositories of several kinds ("mixed", and "colliding", which differs
\* from it in the names of the repositories only), one of them written in a
\* language that the list of recognized languages does not hold (the
\* service answers with the names it detects, whatever the list says).
EmptyMap == <<>>
Services == {"no content", "mixed", "colliding"}

LanguagesOf(p, k) ==
  IF cfg.service = "no content"
    THEN IF k % 2 = 1 THEN EmptyMap ELSE "Python" :> 0
    ELSE IF k % 2 = 1 THEN ("Python" :> 120) @@ ("Shell" :> 30)
         ELSE IF p % 2 = 1 THEN "Prolog" :> 50
         ELSE ("Java" :> 7) @@ ("" :> 3)

RECURSIVE SumOver(_, _)
SumOver(f, S) ==
  IF S = {} THEN 0
  ELSE LET x == CHOOSE y \in S : TRUE IN f[x] + SumOver(f, S \ {x})

\* the sum of all values of a language map
MapTotal(langs) == SumOver(langs, DOMAIN langs)

----------------------------------------------------------------------------
(* RepositoryHandler: the pure parts *)

\* repository['uniqueName'] = "_%s_%s" %(repository['name'], repository['owner'])
UniqueName(repository) ==
  "_" \o repository["name"].s \o "_" \o repository["owner"].s

\* repository['url'] = "git" + repository['url'][5:]
GitUrl(url) == "git" \o SubSeq(url, 6, Len(url))

\* the two assignments at the top of the loop body (the dict is changed in place)
Prepare(repository) ==
  ("uniqueName" :> PyStr(UniqueName(repository)))
  @@ [repository EXCEPT !["url"] = PyUnicode(GitUrl(repository["url"].s))]

\* for language in self._languages: repositoryLanguages[language], or 0 on KeyError
LanguageCell(langs, language) ==
  IF language \in DOMAIN langs THEN langs[language] ELSE 0

LanguageCells(langs) ==
  [i \in 1..Len(Languages) |-> PyInt(LanguageCell(langs, Languages[i]))]

RECURSIVE TotalSizeUpTo(_, _)
TotalSizeUpTo(langs, n) ==
  IF n = 0 THEN 0
  ELSE TotalSizeUpTo(langs, n - 1) + LanguageCell(langs, Languages[n])

\* totalSize: the sum of repositoryLanguages[language] over self._languages
TotalSize(langs) == TotalSizeUpTo(langs, Len(Languages))

\* a slip: the empty string for a field the summary does not have
MetadataCellEmptyDefault(repository, info) ==
  IF info \notin DOMAIN repository THEN PyStr("")
  ELSE IF HasEncode(repository[info]) THEN Encode(repository[info])
  ELSE repository[info]

\* for info in self._headers: repository[info].encode("utf-8"); 0 on KeyError;
\* repository[info] on AttributeError
MetadataCell(repository, info) ==
  IF info \notin DOMAIN repository THEN PyInt(0)
  ELSE IF HasEncode(repository[info]) THEN Encode(repository[info])
  ELSE repository[info]

MetadataCells(repository) ==
  [i \in 1..Len(Headers) |-> MetadataCell(repository, Headers[i])]

\* allInfo: the language cells are appended first, and the metadata cells
\* after them when totalSize > 0
AllInfo(repository, langs) ==
  IF TotalSize(langs) > 0
    THEN LanguageCells(langs) \o MetadataCells(repository)
    ELSE LanguageCells(langs)

\* _examineRepository: (None, None) when getLanguages gave None, else
\* (totalSize, allInfo)
ExamineRepository(repository, probe) ==
  IF probe.kind = "None" THEN [size |-> None, data |-> None]
  ELSE [size |-> TotalSize(probe.val),
        data |-> [kind |-> "row", cells |-> AllInfo(repository, probe.val)]]

\* a slip: >= for > in the test that keeps a row
HasContentOrEmpty(size) == size >= 0

\* if size > 0:
HasContent(size) == size > 0

\* a slip: the flag tested for presence, not for truth
CloneWantedIfSet(clone) == clone \in BOOLEAN

\* if self._clone:
CloneWanted(clone) == clone

\* a slip: only the empty list ends the loop
TerminatingConditionEmptyOnly(repos) ==
  repos.kind = "value" /\ Len(repos.val) = 0

\* if repositories == None or len(repositories) == 0:
TerminatingCondition(repos) ==
  repos.kind = "None" \/ (repos.kind = "value" /\ Len(repos.val) = 0)

\* a slip: break for continue: the rest of the page is left out
AfterRepositoryBreak(w) == [w EXCEPT !.idx = w.idx + 1, !.pc = "append"]

\* a slip: the page advances by one, whatever the number of workers
NextPageByOne(page, maxProcesses) == page + 1

\* page += self._maxProcesses
NextPage(page, maxProcesses) == page + maxProcesses

\* a slip: the loop index is passed as the process number (workers 0..m-1)
ProcessNumberOfIndex(k) == k

\* driver: processNumber + 1 for processNumber in range(maxProcesses)
ProcessNumberOf(k) == k + 1

\* page = self._processNumber
FirstPage(processNumber) == processNumber

----------------------------------------------------------------------------
(* RepositoryHandler._cloneRepository *)

\* One `git clone` attempt is known by what it writes to stderr: nothing, a
\* message with "fatal: destination path" (the destination exists), one with
\* "error: unable to write sha1", or another error ("other").

\* a slip: every message on stderr counts as a failed attempt
CloneFailedOnAnyError(error) == error # ""

\* len(error) > 0 and "fatal: destination path" not in error and
\* "error: unable to write sha1" not in error
CloneFailed(error) ==
  error # "" /\ error # "fatal: destination path"
  /\ error # "error: unable to write sha1"

\* a slip: the retry test of the clone written with < for <=
CloneRetryAllowedStrict(currentAttempt) == currentAttempt < cloneMaxAttempts

\* if currentAttempt <= maxAttempts:
CloneRetryAllowed(currentAttempt) == currentAttempt <= cloneMaxAttempts

\* currentAttempt = 0; maxAttempts = 10; successful = False
CloneLocals ==
  [currentAttempt |-> 0, successful |-> FALSE, sleeps |-> 0, status |-> "loop"]

\* One iteration of `while not successful` of _cloneRepository
CloneIter(st, error) ==
  IF CloneFailed(error)
    THEN LET a == st.currentAttempt + 1 IN
         IF CloneRetryAllowed(a)
           THEN [st EXCEPT !.currentAttempt = a, !.sleeps = st.sleeps + 1]
           ELSE [st EXCEPT !.currentAttempt = a, !.status = "returned"]
    ELSE [st EXCEPT !.successful = TRUE, !.status = "returned"]

\* The whole clone when the first `fails` attempts end with another error and
\* the next one with `last`
RECURSIVE RunClone(_, _, _)
RunClone(st, fails, last) ==
  IF st.status # "loop" THEN st
  ELSE IF fails > 0 THEN RunClone(CloneIter(st, "other"), fails - 1, last)
  ELSE RunClone(CloneIter(st, last), 0, last)

CloneRepository(fails, last) == RunClone(CloneLocals, fails, last)

\* the directory names present in the working directory
Directories == {d[1] : d \in disk}

\* a slip: the scanner runs whatever the clone returned
AfterCloneIgnoringFailure(cloned, sourceStatements) ==
  IF sourceStatements # "" THEN "scan" ELSE "next"

\* a slip: the scanner runs on every cloned copy, pattern or no pattern
AfterCloneAlwaysScan(cloned, sourceStatements) ==
  IF cloned THEN "scan" ELSE "next"

\* if cloned: if self._sourceStatements != "": (scan) ...; else: continue
\* where control goes after _cloneRepository: to the scanner, or to the
\* next repository
AfterClone(cloned, sourceStatements) ==
  IF cloned
    THEN IF sourceStatements # "" THEN "scan" ELSE "next"
    ELSE "next"

\* a slip: the copy is cleaned up whatever the scanner said
AfterScanCleanAlways(relavant) == "clean"

\* if relavant: self._customHandleRepository(repository)
\* else: self._cleanRepository(repository)
AfterScan(relavant) == IF relavant THEN "hook" ELSE "clean"

----------------------------------------------------------------------------
(* The driver and its workers *)

WorkerInit ==
  [pc |-> "unstarted", processNumber |-> 0, page |-> 0, repositories |-> <<>>,
   idx |-> 0, dataOfRepositories |-> <<>>]

HistInit ==
  [requested |-> [t \in Threads |-> <<>>],
   fetched |-> [t \in Threads |-> <<>>],
   appended |-> [t \in Threads |-> <<>>],
   probed |-> {},
   cloned |-> {}, materialized |-> {}, scanned |-> {}, hooked |-> {},
   cleaned |-> {}]

\* no _makeAPICall is being followed step by step
CallIdle == [pc |-> "idle"]

\* no explorer of github_explorer.py / github_crawler.py is being constructed
ExplorerIdle == [pc |-> "idle"]

Init ==
  /\ cfg \in [maxProcesses : 1..MaxWorkers, clone : BOOLEAN,
              sourceStatements : {"", "foo|bar"}, lastPage : 0..MaxPages,
              service : Services]
  /\ driver = 0
  /\ wk = [t \in Threads |-> WorkerInit]
  /\ report = <<>>
  /\ disk = {}
  /\ hist = HistInit
  /\ call = CallIdle
  /\ explorer = ExplorerIdle

\* for processNumber in range(int(userArgs.maxProcesses)): ... worker.start()
DriverStart ==
  /\ driver < cfg.maxProcesses
  /\ wk[driver + 1].pc = "unstarted"
  /\ wk' = [wk EXCEPT ![driver + 1] =
              [@ EXCEPT !.pc = "task", !.processNumber = ProcessNumberOf(driver)]]
  /\ driver' = driver + 1
  /\ UNCHANGED <<cfg, report, disk, hist, call, explorer>>

\* _task: the worker's explorer builds its RepositoryHandler, whose
\* constructor ends with readyCSVReport(), and enters crawlRepositories:
\* page = self._processNumber; done = False
Construct(t) ==
  /\ wk[t].pc = "task"
  /\ report' = ReadyCSVReport(report)
  /\ wk' = [wk EXCEPT ![t] =
              [@ EXCEPT !.pc = "getNextPage",
                        !.page = FirstPage(wk[t].processNumber)]]
  /\ UNCHANGED <<cfg, driver, disk, hist, call, explorer>>

FetchKind(repos) ==
  CASE repos.kind = "raised" -> "raised"
    [] repos.kind = "None" -> "None"
    [] repos.kind = "value" -> IF Len(repos.val) = 0 THEN "empty" ELSE "page"

\* One turn of `while not done` up to the for loop: getNextPage, and the
\* terminating condition (after which page += maxProcesses still runs)
GetNextPage(t) ==
  /\ wk[t].pc = "getNextPage"
  /\ \E b \in RemoteBehaviours :
       LET w == wk[t]
           repos == Unwrap(MakeAPICall(b, Json([repositories |-> SearchPage(w.page)])),
                           "repositories")
       IN
       /\ hist' = [hist EXCEPT !.requested[t] = Append(@, w.page),
                               !.fetched[t] = Append(@, FetchKind(repos))]
       /\ wk' = [wk EXCEPT ![t] =
            IF repos.kind = "raised" THEN [w EXCEPT !.pc = "crashed"]
            ELSE IF TerminatingCondition(repos)
              THEN [w EXCEPT !.pc = "done",
                             !.page = NextPage(w.page, cfg.maxProcesses)]
            ELSE IF repos.kind = "None"
              \* `for repository in None` raises TypeError
              THEN [w EXCEPT !.pc = "crashed"]
            ELSE [w EXCEPT !.pc = "examine", !.repositories = repos.val,
                           !.idx = 1, !.dataOfRepositories = <<>>]]
  /\ UNCHANGED <<cfg, driver, report, disk, call, explorer>>

\* the end of one turn of `for repository in repositories` (also by continue)
AfterRepository(w) ==
  [w EXCEPT !.idx = w.idx + 1,
            !.pc = IF w.idx + 1 > Len(w.repositories) THEN "append" ELSE "examine"]

\* The loop body up to the clone: uniqueName, url, _examineRepository, and
\* the tests on data and size
Examine(t) ==
  /\ wk[t].pc = "examine"
  /\ \E b \in RemoteBehaviours :
       LET w0 == wk[t]
           repository == Prepare(w0.repositories[w0.idx])
           w == [w0 EXCEPT !.repositories[w0.idx] = repository]
           of == <<w.page, w.idx>>
           probe == Unwrap(MakeAPICall(b, Json([languages |-> LanguagesOf(w.page, w.idx)])),
                           "languages")
           ex == ExamineRepository(repository, probe)
       IN
       /\ hist' = [hist EXCEPT !.probed = @ \cup
            {[of |-> of, t |-> t, kind |-> probe.kind]}]
       /\ wk' = [wk EXCEPT ![t] =
            IF probe.kind = "raised" THEN [w EXCEPT !.pc = "crashed"]
            ELSE IF ex.data.kind = "None" THEN AfterRepository(w)
            ELSE IF HasContent(ex.size)
              THEN LET k == [w EXCEPT !.dataOfRepositories =
                                Append(@, Row(ex.data.cells, of))]
                   IN IF CloneWanted(cfg.clone) THEN [k EXCEPT !.pc = "clone"]
                      ELSE AfterRepository(k)
            ELSE AfterRepository(w)]
  /\ UNCHANGED <<cfg, driver, report, disk, call, explorer>>

\* cloned = self._cloneRepository(repository), and the tests that follow it.
\* git refuses a destination that exists; otherwise the clone succeeds at
\* once, or every attempt fails.
Clone(t) ==
  /\ wk[t].pc = "clone"
  /\ LET w == wk[t]
         repository == w.repositories[w.idx]
         name == repository["uniqueName"].s
         url == repository["url"].s
         Finish(res, newDisk) ==
           /\ disk' = newDisk
           /\ hist' = [hist EXCEPT
                !.cloned = @ \cup
                  {[of |-> <<w.page, w.idx>>, t |-> t, ok |-> res.successful]},
                !.materialized = @ \cup
                  (IF newDisk # disk THEN {[of |-> <<w.page, w.idx>>, t |-> t]}
                   ELSE {})]
           /\ wk' = [wk EXCEPT ![t] =
                IF AfterClone(res.successful, cfg.sourceStatements) = "scan"
                  THEN [w EXCEPT !.pc = "scan"]
                  ELSE AfterRepository(w)]
     IN
     IF name \in Directories
       THEN Finish(CloneRepository(0, "fatal: destination path"), disk)
       ELSE \/ Finish(CloneRepository(0, ""), disk \cup {<<name, url>>})
            \/ Finish(CloneRepository(cloneMaxAttempts + 1, "other"), disk)
  /\ UNCHANGED <<cfg, driver, report, call, explorer>>

\* relavant = self._isStatementInRepository(repository): egrep prints the
\* files that match; nothing when no file matches or the directory is absent
IsStatementInRepository(t) ==
  /\ wk[t].pc = "scan"
  /\ LET w == wk[t]
         repository == w.repositories[w.idx]
     IN
     \E relavant \in (IF repository["uniqueName"].s \in Directories
                        THEN BOOLEAN ELSE {FALSE}) :
       /\ wk' = [wk EXCEPT ![t] =
            [w EXCEPT !.pc = AfterScan(relavant)]]
       /\ hist' = [hist EXCEPT !.scanned = @ \cup
            {[of |-> <<w.page, w.idx>>, t |-> t, relavant |-> relavant]}]
  /\ UNCHANGED <<cfg, driver, report, disk, call, explorer>>

\* self._customHandleRepository(repository): pass
CustomHandleRepository(t) ==
  /\ wk[t].pc = "hook"
  /\ LET w == wk[t] IN
     /\ wk' = [wk EXCEPT ![t] = AfterRepository(w)]
     /\ hist' = [hist EXCEPT !.hooked = @ \cup
          {[of |-> <<w.page, w.idx>>, t |-> t]}]
  /\ UNCHANGED <<cfg, driver, report, disk, call, explorer>>

\* self._cleanRepository(repository): rm -rf uniqueName
CleanRepository(t) ==
  /\ wk[t].pc = "clean"
  /\ LET w == wk[t]
         name == w.repositories[w.idx]["uniqueName"].s
     IN
     /\ disk' = {d \in disk : d[1] # name}
     /\ wk' = [wk EXCEPT ![t] = AfterRepository(w)]
     /\ hist' = [hist EXCEPT !.cleaned = @ \cup
          {[of |-> <<w.page, w.idx>>, t |-> t]}]
  /\ UNCHANGED <<cfg, driver, report, call, explorer>>

\* After the for loop: self._reportHandler.appendCSVData(dataOfRepositories)
\* and page += self._maxProcesses
AppendPage(t) ==
  /\ wk[t].pc = "append"
  /\ LET w == wk[t] IN
     /\ report' = AppendCSVData(report, w.dataOfRepositories)
     /\ wk' = [wk EXCEPT ![t] =
          [w EXCEPT !.pc = "getNextPage",
                    !.page = NextPage(w.page, cfg.maxProcesses)]]
     /\ hist' = [hist EXCEPT !.appended[t] =
          Append(@, [page |-> w.page,
                     of |-> [i \in 1..Len(w.dataOfRepositories) |->
                               w.dataOfRepositories[i].of]])]
  /\ UNCHANGED <<cfg, driver, disk, call, explorer>>

Next ==
  \/ DriverStart
  \/ \E t \in Threads : Construct(t)
  \/ \E t \in Threads : GetNextPage(t)
  \/ \E t \in Threads : Examine(t)
  \/ \E t \in Threads : Clone(t)
  \/ \E t \in Threads : IsStatementInRepository(t)
  \/ \E t \in Threads : CustomHandleRepository(t)
  \/ \E t \in Threads : CleanRepository(t)
  \/ \E t \in Threads : AppendPage(t)

Spec == Init /\ [][Next]_vars

\* the steps of worker t: a worker is a thread of its own that runs _task
\* and crawlRepositories statement after statement
Worker(t) ==
  \/ Construct(t)
  \/ GetNextPage(t)
  \/ Examine(t)
  \/ Clone(t)
  \/ IsStatementInRepository(t)
  \/ CustomHandleRepository(t)
  \/ CleanRepository(t)
  \/ AppendPage(t)

\* The driver's loop over the workers runs on, and the interpreter gives
\* every started thread its turn: a step that stays possible is taken. (A remote call always ends with one of its outcomes; a failed
\* attempt is followed by a sleep of 60 seconds, which elapses.)
Fairness ==
  /\ WF_vars(DriverStart)
  /\ \A t \in Threads : WF_vars(Worker(t))

SpecFair == Spec /\ Fairness

----------------------------------------------------------------------------
(* One call of _makeAPICall, one loop iteration per step; next to it, one  *)
(* call of _cloneRepository is fed the same outcomes: a clone attempt that  *)
(* fails where the API call fails, one that succeeds where it succeeds      *)

\* the document the remote side answers with
ThePayload == Json([languages |-> ("Python" :> 120) @@ ("Shell" :> 30)])

InitRetry ==
  /\ cfg = [maxProcesses |-> 1, clone |-> FALSE, sourceStatements |-> "",
            lastPage |-> 0, service |-> "mixed"]
  /\ driver = 0
  /\ wk = [t \in Threads |-> WorkerInit]
  /\ report = <<>>
  /\ disk = {}
  /\ hist = HistInit
  /\ \E n \in 0..MaxFailures, then \in {"ok", "never", "other"} :
       call = [b |-> Behaviour(n, then), left |-> Behaviour(n, then),
               st |-> ApiLocals, cl |-> CloneLocals,
               n |-> 1, spent |-> 0, failed |-> 0, fed |-> 0, error |-> ""]
  /\ explorer = ExplorerIdle

\* what `git clone` may write to stderr on the same outcome: an attempt that
\* counts as a success wrote nothing or one of the two tolerated messages, a
\* failed attempt another error message
ErrorOf(outcome) ==
  IF outcome = "ok"
    THEN {"", "fatal: destination path", "error: unable to write sha1"}
    ELSE {"other"}

\* the locals after one more turn of the loop, the remote side one step on
\* (an exception that is no URLError has no counterpart among the outcomes
\* of a clone attempt: the clone is not stepped). Beside the locals the
\* record keeps what the remote side did to this call: the outcomes it gave
\* (fed), the failures among them (failed), the last stderr of git (error).
CallAfter(outcome, error) ==
  [call EXCEPT !.st = ApiIter(call.st, outcome, ThePayload),
               !.left = Consume(call.left),
               !.cl = IF call.cl.status = "loop" /\ outcome # "other"
                        THEN CloneIter(call.cl, error)
                        ELSE call.cl,
               !.fed = call.fed + 1,
               !.failed = call.failed + (IF outcome = "URLError" THEN 1 ELSE 0),
               !.error = IF outcome # "other" THEN error ELSE call.error]

\* data = json.load(urllib2.urlopen(apiCall)); successful = True
CallSucceeds ==
  /\ call.st.status = "loop"
  /\ NextOutcome(call.left) = "ok"
  /\ \E error \in ErrorOf("ok") : call' = CallAfter("ok", error)
  /\ UNCHANGED <<cfg, driver, wk, report, disk, hist, explorer>>

\* except urllib2.URLError: count the attempt, sleep and retry, or return None
CallFails ==
  /\ call.st.status = "loop"
  /\ NextOutcome(call.left) = "URLError"
  /\ \E error \in ErrorOf("URLError") : call' = CallAfter("URLError", error)
  /\ UNCHANGED <<cfg, driver, wk, report, disk, hist, explorer>>

\* an exception that is no URLError leaves the call
CallRaises ==
  /\ call.st.status = "loop"
  /\ NextOutcome(call.left) = "other"
  /\ \E error \in ErrorOf("other") : call' = CallAfter("other", error)
  /\ UNCHANGED <<cfg, driver, wk, report, disk, hist, explorer>>

\* a slip: the attempt counter kept on the handler object and not reset
EnterAPICallKeepingCount(previous) ==
  [ApiLocals EXCEPT !.currentAttempt = previous.currentAttempt]

\* entry of _makeAPICall: currentAttempt = 0; maxAttempts = 10;
\* successful = False; data = None, whatever the previous call left
EnterAPICall(previous) == ApiLocals

\* entry of _cloneRepository: currentAttempt = 0; maxAttempts = 10;
\* successful = False, whatever the previous call left
EnterClone(previous) == CloneLocals

\* the handler is called again after a call has returned or raised (the
\* crawl makes one call per page and one per repository); spent keeps the
\* failures the earlier calls consumed
CallStart ==
  /\ call.st.status # "loop"
  /\ call.n < MaxCalls
  /\ \E n \in 0..MaxFailures, then \in {"ok", "never", "other"} :
       call' = [b |-> Behaviour(n, then), left |-> Behaviour(n, then),
                st |-> EnterAPICall(call.st), cl |-> EnterClone(call.cl),
                n |-> call.n + 1, spent |-> call.spent + call.failed,
                failed |-> 0, fed |-> 0, error |-> ""]
  /\ UNCHANGED <<cfg, driver, wk, report, disk, hist, explorer>>

NextRetry == CallSucceeds \/ CallFails \/ CallRaises \/ CallStart

SpecRetry == InitRetry /\ [][NextRetry]_vars

----------------------------------------------------------------------------
(* One explorer started by hand, without the driver ("It's still possible   *)
(* to manually orchestrate the multiple GitHub Explorer programs by making  *)
(* use of the -p and -m parameters"): a RepositoryHandler constructed with  *)
(* the process number and the number of processes of the command line.      *)

\* the -p arguments tried: 0, the numbers 1..m, and numbers greater than m
ProcessNumbers == 0..(MaxWorkers + 1)

InitManual ==
  /\ cfg \in [maxProcesses : 1..MaxWorkers, clone : BOOLEAN,
              sourceStatements : {"foo|bar"}, lastPage : 0..MaxPages,
              service : {"mixed"}]
  /\ driver = 0
  /\ \E processNumber \in ProcessNumbers :
       wk = [t \in Threads |->
               IF t = 1
                 THEN [WorkerInit EXCEPT !.pc = "task",
                                         !.processNumber = processNumber]
                 ELSE WorkerInit]
  /\ report = <<>>
  /\ disk = {}
  /\ hist = HistInit
  /\ call = CallIdle
  /\ explorer = ExplorerIdle

NextManual ==
  \/ \E t \in Threads : Construct(t)
  \/ \E t \in Threads : GetNextPage(t)
  \/ \E t \in Threads : Examine(t)
  \/ \E t \in Threads : Clone(t)
  \/ \E t \in Threads : IsStatementInRepository(t)
  \/ \E t \in Threads : CustomHandleRepository(t)
  \/ \E t \in Threads : CleanRepository(t)
  \/ \E t \in Threads : AppendPage(t)

SpecManual == InitManual /\ [][NextManual]_vars

----------------------------------------------------------------------------
(* The naming of the repositories of one page: the first two statements of  *)
(* the body of `for repository in repositories`, one repository per step    *)

\* the names and the owners the search service answers with
RepoNames == {"a", "a_b", "b", "-x"}
RepoOwners == {"c", "b_c", "d"}

\* a summary of the search API with that name and that owner
SummaryOf(name, owner) ==
  [f \in {"name", "owner", "url"} |->
     CASE f = "name" -> PyUnicode(name)
       [] f = "owner" -> PyUnicode(owner)
       [] f = "url" -> PyUnicode("https://github.com/" \o owner \o "/" \o name)]

InitNames ==
  /\ cfg = [maxProcesses |-> 1, clone |-> FALSE, sourceStatements |-> "",
            lastPage |-> 1, service |-> "mixed"]
  /\ driver = 1
  /\ \E n1, n2 \in RepoNames, o1, o2 \in RepoOwners :
       wk = [t \in Threads |->
               IF t = 1
                 THEN [WorkerInit EXCEPT
                         !.pc = "name", !.processNumber = 1, !.page = 1,
                         !.repositories = <<SummaryOf(n1, o1), SummaryOf(n2, o2)>>,
                         !.idx = 1]
                 ELSE WorkerInit]
  /\ report = <<>>
  /\ disk = {}
  /\ hist = HistInit
  /\ call = CallIdle
  /\ explorer = ExplorerIdle

\* repository['uniqueName'] = ...; repository['url'] = ...
NameRepository(t) ==
  /\ wk[t].pc = "name"
  /\ wk[t].idx <= Len(wk[t].repositories)
  /\ wk' = [wk EXCEPT ![t] =
              [@ EXCEPT !.repositories[wk[t].idx] = Prepare(@),
                        !.idx = wk[t].idx + 1]]
  /\ UNCHANGED <<cfg, driver, report, disk, hist, call, explorer>>

NextNames == \E t \in Threads : NameRepository(t)

SpecNames == InitNames /\ [][NextNames]_vars

----------------------------------------------------------------------------
(* The start-up of the explorers that validate their language filter:      *)
(* GitHubExplorer.__init__ (github_explorer.py) and GitHubCrawler.__init__  *)
(* (github_crawler.py), and the page requests of their crawlRepositories.   *)
(* The handling of the repositories of a page is not followed here: a page  *)
(* answered is a page processed.                                            *)

\* str.replace(old, new) for a one-character old
RECURSIVE Replace(_, _, _)
Replace(input, old, new) ==
  IF Len(input) = 0 THEN ""
  ELSE LET c == SubSeq(input, 1, 1) IN
       (IF c = old THEN new ELSE c)
         \o Replace(SubSeq(input, 2, Len(input)), old, new)

\* cleanInput: the four replace calls, in their order
CleanInput(input) ==
  Replace(Replace(Replace(Replace(input, ":", "%3A"), "/", "%2F"), "#", "%23"),
          "+", "%2B")

\* str.split(): the words between runs of blanks (cur: the word being read)
RECURSIVE Split(_, _)
Split(input, cur) ==
  IF Len(input) = 0 THEN (IF cur = "" THEN <<>> ELSE <<cur>>)
  ELSE LET c == SubSeq(input, 1, 1)
           rest == SubSeq(input, 2, Len(input))
       IN IF c = " "
            THEN (IF cur = "" THEN <<>> ELSE <<cur>>) \o Split(rest, "")
            ELSE Split(rest, cur \o c)

\* sep.join(words)
RECURSIVE Join(_, _)
Join(words, sep) ==
  IF Len(words) = 0 THEN ""
  ELSE IF Len(words) = 1 THEN words[1]
  ELSE words[1] \o sep \o Join(Tail(words), sep)

\* '+'.join(keywords.split())
PlusJoined(keywords) == Join(Split(keywords, ""), "+")

\* language in self._languages
IsLanguage(language) == \E i \in 1..Len(Languages) : Languages[i] = language

\* the -l and -k arguments of the command line
LanguageInputs == {"", "Python", "C#", "Max/FMSP", "Klingon"}
KeywordInputs == {"", "android testing", "c++ a:b  #1"}

InitStartup ==
  /\ \E lastPage \in 0..MaxPages :
       cfg = [maxProcesses |-> 1, clone |-> FALSE, sourceStatements |-> "",
              lastPage |-> lastPage, service |-> "mixed"]
  /\ driver = 0
  /\ wk = [t \in Threads |-> WorkerInit]
  /\ report = <<>>
  /\ disk = {}
  /\ hist = HistInit
  /\ call = CallIdle
  /\ \E program \in {"GitHubExplorer", "GitHubCrawler"},
        language \in LanguageInputs, keywords \in KeywordInputs,
        errors \in 0..1 :
       explorer = [pc |-> "init", program |-> program, language |-> language,
                   keywords |-> keywords, errors |-> errors,
                   primaryLanguage |-> "", joinedKeywords |-> "", page |-> 0,
                   requests |-> <<>>, processed |-> 0]

\* the constructor after the test of the language: cleanInput, the
\* keywords, the header row of repositories.csv, and the first statements
\* of crawlRepositories
Constructed(language) ==
  [explorer EXCEPT !.pc = "crawl",
                   !.primaryLanguage = CleanInput(language),
                   !.joinedKeywords = PlusJoined(explorer.keywords),
                   !.page = 0]

\* GitHubExplorer.__init__: a language that is not recognized is logged
\* with logging.fatal and replaced by ""
ExplorerConstruct ==
  /\ explorer.pc = "init"
  /\ explorer.program = "GitHubExplorer"
  /\ explorer' = Constructed(IF IsLanguage(explorer.language)
                               THEN explorer.language ELSE "")
  /\ report' = ReadyCSVReport(report)
  /\ UNCHANGED <<cfg, driver, wk, disk, hist, call>>

\* GitHubCrawler.__init__: a language that is not recognized raises Exception
CrawlerConstruct ==
  /\ explorer.pc = "init"
  /\ explorer.program = "GitHubCrawler"
  /\ IF IsLanguage(explorer.language)
       THEN /\ explorer' = Constructed(explorer.language)
            /\ report' = ReadyCSVReport(report)
       ELSE /\ explorer' = [explorer EXCEPT !.pc = "raised"]
            /\ report' = report
  /\ UNCHANGED <<cfg, driver, wk, disk, hist, call>>

\* the search request sent for a page
SearchRequest(page) ==
  [keywords |-> explorer.joinedKeywords, language |-> explorer.primaryLanguage,
   start_page |-> page]

\* One search request of crawlRepositories answered: page += 1 and the
\* request; an empty page ends the loop
SearchAnswered ==
  /\ explorer.pc \in {"crawl", "retry"}
  /\ LET page == IF explorer.pc = "crawl" THEN explorer.page + 1
                 ELSE explorer.page
     IN explorer' =
          [explorer EXCEPT
             !.page = page,
             !.requests = Append(@, SearchRequest(page)),
             !.pc = IF Len(SearchPage(page)) = 0 THEN "done" ELSE "crawl",
             !.processed = @ + Len(SearchPage(page))]
  /\ UNCHANGED <<cfg, driver, wk, report, disk, hist, call>>

\* One search request refused with an HTTPError: GitHubExplorer asks again
\* for the same page, GitHubCrawler ends its loop
SearchRefused ==
  /\ explorer.pc \in {"crawl", "retry"}
  /\ explorer.errors > 0
  /\ LET page == IF explorer.pc = "crawl" THEN explorer.page + 1
                 ELSE explorer.page
     IN explorer' =
          [explorer EXCEPT
             !.page = page,
             !.errors = @ - 1,
             !.requests = Append(@, SearchRequest(page)),
             !.pc = IF explorer.program = "GitHubExplorer" THEN "retry"
                    ELSE "done"]
  /\ UNCHANGED <<cfg, driver, wk, report, disk, hist, call>>

NextStartup ==
  \/ ExplorerConstruct
  \/ CrawlerConstruct
  \/ SearchAnswered
  \/ SearchRefused

SpecStartup == InitStartup /\ [][NextStartup]_vars

----------------------------------------------------------------------------
(* Properties *)

Started == {t \in Threads : wk[t].pc # "unstarted"}
InPage == {"examine", "clone", "scan", "hook", "clean", "append"}
DataRows(rows) == {i \in 1..Len(rows) : rows[i].of # <<0, 0>>}
AppendedPages(t) == [j \in 1..Len(hist.appended[t]) |-> hist.appended[t][j].page]

\* C1: the report only grows: a data row that is in the report is still in
\* the report after every step of any worker.
C1_ReportOnlyGrows ==
  [][\A i \in DataRows(report) :
       \E j \in 1..Len(report') : report'[j] = report[i]]_vars

\* The value a repository has for the field named by a header cell: a
\* metadata field of the summary, or the size of a language
FieldValue(of, name) ==
  IF \E i \in 1..Len(Headers) : Headers[i] = name
    THEN MetadataCell(Prepare(Summary(of[1], of[2])), name)
    ELSE PyInt(LanguageCell(LanguagesOf(of[1], of[2]), name))

RowFollowsHeader(row) ==
  \A i \in 1..Len(HeaderRow) :
    /\ i <= Len(row.cells)
    /\ row.cells[i] = FieldValue(row.of, HeaderRow[i].s)

\* C2: every data row, appended to the report or collected for it, holds at
\* each column the value of the field the header row names at that column.
C2_RowsFollowHeader ==
  /\ \A i \in DataRows(report) : RowFollowsHeader(report[i])
  /\ \A t \in Threads : \A i \in 1..Len(wk[t].dataOfRepositories) :
       RowFollowsHeader(wk[t].dataOfRepositories[i])

NeverSucceeds(b) == b.then = "never" \/ b.fails > maxAttempts

C5_NoUncaughtException == \A t \in Threads : wk[t].pc # "crashed"

\* The pages of worker (i, m) up to a bound: the pages its loop visits
RECURSIVE PagesFrom(_, _, _)
PagesFrom(page, m, bound) ==
  IF page > bound THEN {}
  ELSE {page} \cup PagesFrom(NextPage(page, m), m, bound)

PageSet(i, m) == PagesFrom(FirstPage(i), m, MaxPages + MaxWorkers)

\* C6: the page sets of the workers 1..m are pairwise disjoint and cover all
\* pages; the driver starts the workers 1..m, each once; the k-th request of
\* worker (i, m) is for page i + (k-1)*m.
C6_Partition ==
  LET m == cfg.maxProcesses IN
  /\ \A i, j \in 1..m : i # j => PageSet(i, m) \cap PageSet(j, m) = {}
  /\ UNION {PageSet(i, m) : i \in 1..m} = 1..(MaxPages + MaxWorkers)
  /\ driver <= m
  /\ Started = 1..driver
  /\ {wk[t].processNumber : t \in Started} = 1..driver
  /\ \A t, u \in Started : t # u => wk[t].processNumber # wk[u].processNumber
  /\ \A t \in Threads : \A k \in 1..Len(hist.requested[t]) :
       hist.requested[t][k] = wk[t].processNumber + (k - 1) * m

C6_Witness ==
  /\ cfg.maxProcesses = MaxWorkers
  /\ driver = MaxWorkers
  /\ \A t \in Threads : Len(hist.requested[t]) >= 2

\* the appends that processed page p: (thread, index in its appends)
AppendsOf(p) ==
  {x \in Threads \X (1..(MaxPages + 1)) :
     /\ x[2] <= Len(hist.appended[x[1]])
     /\ hist.appended[x[1]][x[2]].page = p}

AllDone == \A t \in 1..cfg.maxProcesses : wk[t].pc = "done"

\* C7: once all workers have terminated, every page in 1..P has been
\* processed by exactly one worker.
C7_EveryPageProcessed ==
  AllDone => \A p \in 1..cfg.lastPage : Cardinality(AppendsOf(p)) = 1

\* C7 as amended: every page is processed at most once, by the worker of its
\* partition; a page fetch that returns None (retries exhausted) is the
\* worker's last request; a worker that is done has processed, each once
\* and in order, exactly the pages it requested before the first one whose
\* fetch returned None or the empty list; a worker stopped by an exception
\* has processed exactly the pages it requested before the one in flight.
C7_ProcessedUpToFirstFailure ==
  /\ \A p \in 1..(MaxPages + MaxWorkers) :
       /\ Cardinality(AppendsOf(p)) <= 1
       /\ \A x \in AppendsOf(p) :
            p \in PageSet(wk[x[1]].processNumber, cfg.maxProcesses)
  /\ \A t \in Threads :
       LET n == Len(hist.fetched[t]) IN
       /\ \A k \in 1..n :
            hist.fetched[t][k] = "None" => (k = n /\ wk[t].pc = "done")
       /\ wk[t].pc = "done" =>
            /\ n >= 1
            /\ hist.fetched[t][n] \in {"None", "empty"}
            /\ \A k \in 1..(n - 1) : hist.fetched[t][k] = "page"
            /\ AppendedPages(t) = SubSeq(hist.requested[t], 1, n - 1)
       /\ wk[t].pc = "crashed" =>
            /\ n >= 1
            /\ hist.fetched[t][n] \in {"raised", "page"}
            /\ \A k \in 1..(n - 1) : hist.fetched[t][k] = "page"
            /\ AppendedPages(t) = SubSeq(hist.requested[t], 1, n - 1)

\* a worker stopped by a retry-exhausted fetch of a non-empty page, which
\* is left unprocessed
C7_Witness ==
  /\ AllDone
  /\ \E t \in Threads :
       LET n == Len(hist.fetched[t]) IN
       /\ n >= 2
       /\ hist.fetched[t][n] = "None"
       /\ hist.requested[t][n] <= cfg.lastPage
       /\ AppendsOf(hist.requested[t][n]) = {}

\* C8: the crawl loop is done exactly when the last getNextPage returned the
\* empty list or None, and nothing is requested after such a return; when
\* that was the first request, nothing was processed and nothing appended.
C8_TerminatesOnEmptyOrNone ==
  \A t \in Threads :
    LET n == Len(hist.fetched[t]) IN
    /\ wk[t].pc = "done" <=> (n >= 1 /\ hist.fetched[t][n] \in {"None", "empty"})
    /\ \A k \in 1..(n - 1) : hist.fetched[t][k] = "page"
    /\ (wk[t].pc = "done" /\ n = 1) =>
         /\ hist.appended[t] = <<>>
         /\ wk[t].dataOfRepositories = <<>>
         /\ \A e \in hist.probed : e.t # t

C8_Witness ==
  /\ cfg.maxProcesses = 2
  /\ wk[1].pc = "done" /\ hist.fetched[1] = <<"None">>
  /\ wk[2].pc = "done" /\ hist.fetched[2] = <<"empty">>

\* the positions of the page whose rows worker t kept (probe answered,
\* total size positive), in increasing order
RECURSIVE KeptUpTo(_, _, _)
KeptUpTo(t, p, k) ==
  IF k = 0 THEN <<>>
  ELSE IF /\ [of |-> <<p, k>>, t |-> t, kind |-> "value"] \in hist.probed
          /\ TotalSize(LanguagesOf(p, k)) > 0
    THEN Append(KeptUpTo(t, p, k - 1), <<p, k>>)
    ELSE KeptUpTo(t, p, k - 1)

\* C9: each non-empty page fetched gets exactly one append, which holds all
\* the rows kept from it and is made before the next page is requested; no
\* append is made while the page is in flight; the rows collected and not
\* yet appended belong to the page in flight (the page a crashed worker was
\* processing when it stopped).
C9_Appends ==
  \A t \in Threads :
    LET n == Len(hist.requested[t])
        w == wk[t]
    IN
    /\ AppendedPages(t) =
         IF w.pc = "getNextPage" THEN hist.requested[t]
         ELSE SubSeq(hist.requested[t], 1, n - 1)
    /\ \A j \in 1..Len(hist.appended[t]) :
         hist.appended[t][j].of = KeptUpTo(t, hist.appended[t][j].page, PageSize)
    /\ \A i \in 1..Len(w.dataOfRepositories) :
         LET p == w.dataOfRepositories[i].of[1] IN
         (\A j \in 1..Len(hist.appended[t]) : hist.appended[t][j].page # p)
           => (w.pc \in InPage \cup {"crashed"} /\ p = w.page)

\* every step that appends writes the whole batch at the end of the report
C9_WholeBatch ==
  \A t \in Threads :
    hist.appended'[t] # hist.appended[t] =>
      report' = report \o wk[t].dataOfRepositories

\* C9: one append per non-empty page, made after the whole page and before
\* the next request, holding all the rows kept from the page and writing
\* them all; none per repository.
C9_OneAppendPerPage == [](C9_Appends) /\ [][C9_WholeBatch]_vars

C9_Witness ==
  \E t \in Threads :
    /\ Len(hist.appended[t]) = 2
    /\ Len(hist.appended[t][2].of) = 2
    /\ wk[t].pc = "getNextPage"

\* C10: a repository whose language sizes sum to 0 gives no row and is never
\* cloned, scanned, passed to the hook or cleaned up; when every repository
\* is such a one, the report never holds more than its header row.
C10_EmptyRepositoryNoRow ==
  /\ \A p \in 1..(MaxPages + MaxWorkers), k \in 1..PageSize :
       MapTotal(LanguagesOf(p, k)) = 0 =>
         /\ \A i \in 1..Len(report) : report[i].of # <<p, k>>
         /\ \A t \in Threads : \A i \in 1..Len(wk[t].dataOfRepositories) :
              wk[t].dataOfRepositories[i].of # <<p, k>>
         /\ \A e \in hist.cloned \cup hist.scanned \cup hist.hooked \cup hist.cleaned :
              e.of # <<p, k>>
  /\ cfg.service = "no content" =>
       /\ DataRows(report) = {}
       /\ disk = {}

C10_Witness ==
  /\ cfg.service = "no content"
  /\ cfg.clone
  /\ \E t \in Threads : Len(hist.appended[t]) >= 1
  /\ Len(report) = 1

\* what _examineRepository and the test on size make of the answer the probe
\* gave for the repository at <<page, position>>
Examined(of) ==
  ExamineRepository(Prepare(Summary(of[1], of[2])),
                    [kind |-> "value", val |-> LanguagesOf(of[1], of[2])])

\* C11: for every language map the probe has answered with, the total size
\* that is compared with 0 is the sum of all the values of the map, so the
\* repository is kept exactly when that sum is positive.
C11_TotalSizeIsSumOfValues ==
  \A e \in hist.probed :
    e.kind = "value" =>
      LET langs == LanguagesOf(e.of[1], e.of[2]) IN
      /\ Examined(e.of).size = MapTotal(langs)
      /\ HasContent(Examined(e.of).size) <=> MapTotal(langs) > 0

\* the rows of the report built from the repository at <<page, position>>
RowsOf(of) == {i \in 1..Len(report) : report[i].of = of}

\* the columns of the header row that are named after a language
LanguageColumns ==
  {i \in 1..Len(HeaderRow) :
     \E j \in 1..Len(Languages) : Languages[j] # "" /\ HeaderRow[i].s = Languages[j]}

\* C12: with clone disabled, a repository with a non-zero language map has
\* exactly one row once its page is appended, and in that row the column
\* of every language holds the map's value for it, 0 when it has none.
C12_LanguageColumns ==
  ~cfg.clone =>
    \A t \in Threads : \A j \in 1..Len(hist.appended[t]) :
      \A k \in 1..PageSize :
        LET of == <<hist.appended[t][j].page, k>>
            langs == LanguagesOf(of[1], of[2])
        IN
        ([of |-> of, t |-> t, kind |-> "value"] \in hist.probed
         /\ TotalSize(langs) > 0) =>
          /\ Cardinality(RowsOf(of)) = 1
          /\ \A i \in RowsOf(of) : \A c \in LanguageColumns :
               /\ c <= Len(report[i].cells)
               /\ report[i].cells[c] = PyInt(LanguageCell(langs, HeaderRow[c].s))

\* worker t is no longer at work on the repository at <<page, position>>
Finished(t, of) ==
  ~(/\ wk[t].page = of[1]
    /\ wk[t].idx = of[2]
    /\ wk[t].pc \in {"clone", "scan", "hook", "clean"})

\* the directory a repository is cloned into
DirOf(of) == UniqueName(Summary(of[1], of[2]))

\* the copy of a repository: the directory of its uniqueName holding what
\* git cloned from its url
CopyOf(of) == <<DirOf(of), Prepare(Summary(of[1], of[2]))["url"].s>>

\* worker t holds the row of the repository in the batch of the page in
\* flight, or has appended it with the batch of its page
Emitted(t, of) ==
  IF \E j \in 1..Len(hist.appended[t]) : hist.appended[t][j].page = of[1]
    THEN \E j \in 1..Len(hist.appended[t]) :
           /\ hist.appended[t][j].page = of[1]
           /\ \E i \in 1..Len(hist.appended[t][j].of) :
                hist.appended[t][j].of[i] = of
    ELSE \E i \in 1..Len(wk[t].dataOfRepositories) :
           wk[t].dataOfRepositories[i].of = of

Step(e) == [of |-> e.of, t |-> e.t]

\* worker t has gone on past the repository: it is at a later position of
\* the page, or the page is behind it with every position probed
WentOn(t, of) ==
  /\ wk[t].page = of[1] => wk[t].idx > of[2]
  /\ (\E j \in 1..Len(hist.appended[t]) : hist.appended[t][j].page = of[1]) =>
       \A k \in 1..PageSize : \E x \in hist.probed : x.of = <<of[1], k>> /\ x.t = t

C14_CopyRemovedUnlessHooked ==
  \A e \in hist.cloned :
    (e.ok /\ Finished(e.t, e.of)) =>
      (CopyOf(e.of) \notin disk \/ Step(e) \in hist.hooked)

\* C14 as amended: with a non-empty pattern the copy of a finished
\* repository is gone unless the hook was invoked on it; with an empty
\* pattern the copy is left where it was cloned, neither passed to the hook
\* nor removed.
C14_CopyRemovedUnlessHookedOrNoPattern ==
  \A e \in hist.cloned :
    (e.ok /\ Finished(e.t, e.of)) =>
      IF cfg.sourceStatements # ""
        THEN CopyOf(e.of) \notin disk \/ Step(e) \in hist.hooked
        ELSE /\ Step(e) \in hist.materialized => CopyOf(e.of) \in disk
             /\ Step(e) \notin hist.hooked \cup hist.cleaned
             /\ \A x \in hist.scanned : Step(x) # Step(e)

\* a copy left behind by a run without a pattern, its page appended
C14_Witness ==
  /\ cfg.clone /\ cfg.sourceStatements = ""
  /\ \E e \in hist.cloned :
       /\ e.ok
       /\ \E j \in 1..Len(hist.appended[e.t]) :
            hist.appended[e.t][j].page = e.of[1]
       /\ CopyOf(e.of) \in disk

\* the steps of the pipeline after the probe
AfterProbe == hist.scanned \cup hist.hooked \cup hist.cleaned

\* C15: a repository whose probe gave None has no row and is not cloned;
\* the worker goes on with the next repository of the page, and the page
\* is appended with the rows of its other repositories.
C15_ProbeFailureSkipsRepository ==
  \A e \in hist.probed :
    e.kind = "None" =>
      /\ RowsOf(e.of) = {}
      /\ ~Emitted(e.t, e.of)
      /\ \A x \in hist.cloned \cup AfterProbe : x.of # e.of
      /\ WentOn(e.t, e.of)
      /\ \A j \in 1..Len(hist.appended[e.t]) :
           hist.appended[e.t][j].page = e.of[1] =>
             hist.appended[e.t][j].of = KeptUpTo(e.t, e.of[1], PageSize)

\* the probe of the first repository of a page failed, and the page was
\* appended with the row of its second repository
C15_Witness ==
  \E e \in hist.probed :
    /\ e.kind = "None" /\ e.of[2] = 1
    /\ \E j \in 1..Len(hist.appended[e.t]) :
         /\ hist.appended[e.t][j].page = e.of[1]
         /\ hist.appended[e.t][j].of = <<  <<e.of[1], 2>>  >>
    /\ \E i \in 1..Len(report) : report[i].of = <<e.of[1], 2>>

\* C16: a repository whose clone failed keeps its row, which is appended
\* with its page; it is not scanned, passed to the hook or cleaned up, and
\* the worker goes on with the next repository.
C16_CloneFailureKeepsRow ==
  \A e \in hist.cloned :
    ~e.ok =>
      /\ Emitted(e.t, e.of)
      /\ \A x \in AfterProbe : Step(x) # Step(e)
      /\ WentOn(e.t, e.of)

\* the clone of the first repository of a page failed, the second was
\* cloned, and both rows are in the report
C16_Witness ==
  /\ cfg.sourceStatements # ""
  /\ \E e, f \in hist.cloned :
       /\ ~e.ok /\ f.ok /\ e.t = f.t
       /\ e.of[1] = f.of[1] /\ e.of[2] = 1 /\ f.of[2] = 2
       /\ RowsOf(e.of) # {} /\ RowsOf(f.of) # {}

\* C17: two repositories of a page that differ in name or in owner never
\* get the same uniqueName.
C17_UniqueNameInjective ==
  LET w == wk[1] IN
  (w.pc = "name" /\ w.idx > 2) =>
    (w.repositories[1]["uniqueName"] = w.repositories[2]["uniqueName"] =>
       /\ w.repositories[1]["name"] = w.repositories[2]["name"]
       /\ w.repositories[1]["owner"] = w.repositories[2]["owner"])

\* C18: fed the same outcomes, _cloneRepository and _makeAPICall have made
\* the same number of attempts and of sleeps after every outcome, stop
\* after the same outcome, and end with the same verdict.
C18_SameRetryPolicy ==
  call.b.then # "other" =>
    /\ call.cl.status = call.st.status
    /\ call.cl.currentAttempt = call.st.currentAttempt
    /\ call.cl.sleeps = call.st.sleeps
    /\ call.cl.successful = call.st.successful
    /\ call.st.status = "returned" =>
         (call.cl.successful <=> call.st.data # None)

\* both loops have given up after the same eleven failures
C18_Witness ==
  /\ call.b.then = "never"
  /\ call.st.status = "returned" /\ call.cl.status = "returned"
  /\ ~call.cl.successful
  /\ call.cl.sleeps = cloneMaxAttempts
  /\ call.cl.currentAttempt = cloneMaxAttempts + 1

\* C19: an explorer constructed with a language filter that is not in the
\* vocabulary stops before crawling: it requests no page and processes no
\* repository.
C19_InvalidLanguageIsFatal ==
  ~IsLanguage(explorer.language) =>
    /\ explorer.requests = <<>>
    /\ explorer.processed = 0

\* C20: a worker whose index is outside 1..maxProcesses requests no page:
\* every page requested is requested by a worker with
\* 1 <= processNumber <= maxProcesses.
C20_IndexOutOfRangeRequestsNothing ==
  \A t \in Threads :
    hist.requested[t] # <<>> =>
      (1 <= wk[t].processNumber /\ wk[t].processNumber <= cfg.maxProcesses)

\* the percent-escape of one character
EscapeOf(c) ==
  CASE c = ":" -> "%3A"
    [] c = "/" -> "%2F"
    [] c = "#" -> "%23"
    [] c = "+" -> "%2B"
    [] OTHER -> c

\* a string with every ':', '/', '#' and '+' replaced by its percent-escape
RECURSIVE Escaped(_)
Escaped(input) ==
  IF Len(input) = 0 THEN ""
  ELSE EscapeOf(SubSeq(input, 1, 1)) \o Escaped(SubSeq(input, 2, Len(input)))

\* the words of the user's keywords, each one escaped, joined for the query
EscapedKeywords(keywords) ==
  LET words == Split(keywords, "") IN
  Join([i \in 1..Len(words) |-> Escaped(words[i])], "+")

\* C21: every search request carries the user's language and the user's
\* keywords with each ':', '/', '#' and '+' replaced by its percent-escape;
\* the empty language is sent as it is.
C21_LanguageAndKeywordsEscaped ==
  IsLanguage(explorer.language) =>
    \A i \in 1..Len(explorer.requests) :
      /\ explorer.requests[i].language = Escaped(explorer.language)
      /\ explorer.requests[i].keywords = EscapedKeywords(explorer.keywords)

\* <<page, position>> a comes before <<page, position>> b
Before(a, b) == a[1] < b[1] \/ (a[1] = b[1] /\ a[2] < b[2])

\* the positions of page p that worker t has probed
ProbedPositions(t, p) == {e.of[2] : e \in {x \in hist.probed : x.t = t /\ x.of[1] = p}}

\* the rows of a batch appended by worker t, in the order of all its appends
RECURSIVE AppendedUpTo(_, _)
AppendedUpTo(t, j) ==
  IF j = 0 THEN <<>> ELSE AppendedUpTo(t, j - 1) \o hist.appended[t][j].of

\* C22: the k-th request of worker (i, m) is for page i + (k-1)*m, so its
\* requests increase strictly; the repositories of a page are probed in
\* the order of the response (the positions probed are always 1..n); the
\* rows a worker appends, and the rows of one worker in the report, are
\* in (page, position) order.
C22_PagesAndRowsInOrder ==
  \A t \in Threads :
    LET req == hist.requested[t]
        rows == AppendedUpTo(t, Len(hist.appended[t]))
    IN
    /\ \A k \in 1..Len(req) :
         req[k] = wk[t].processNumber + (k - 1) * cfg.maxProcesses
    /\ \A k \in 1..(Len(req) - 1) : req[k] < req[k + 1]
    /\ \A p \in 1..(MaxPages + MaxWorkers) :
         \E n \in 0..PageSize : ProbedPositions(t, p) = 1..n
    /\ \A i, j \in 1..Len(rows) : i < j => Before(rows[i], rows[j])
    /\ \A i, j \in DataRows(report) :
         (/\ i < j
          /\ report[i].of[1] \in PageSet(wk[t].processNumber, cfg.maxProcesses)
          /\ report[j].of[1] \in PageSet(wk[t].processNumber, cfg.maxProcesses))
           => Before(report[i].of, report[j].of)

\* one worker has appended two pages, the second with two rows, and the
\* report holds the three rows
C22_Witness ==
  /\ cfg.maxProcesses = 1
  /\ Len(hist.appended[1]) = 2
  /\ Len(hist.appended[1][2].of) = 2
  /\ Cardinality(DataRows(report)) = 3

\* the totalSize that _examineRepository returns for the repository
SizeOf(of) == TotalSize(LanguagesOf(of[1], of[2]))

\* worker t is about to call _cloneRepository for the repository
AboutToClone(t, of) ==
  wk[t].pc = "clone" /\ wk[t].page = of[1] /\ wk[t].idx = of[2]

\* C23: _cloneRepository is invoked for a repository exactly when clone is
\* enabled, its probe succeeded and its total size (the totalSize that
\* _examineRepository returned) is greater than 0; with clone disabled
\* nothing is ever cloned, scanned, passed to the hook or cleaned up.
C23_CloneIffEnabledAndContent ==
  /\ \A e \in hist.cloned :
       /\ cfg.clone
       /\ [of |-> e.of, t |-> e.t, kind |-> "value"] \in hist.probed
       /\ SizeOf(e.of) > 0
  /\ \A e \in hist.probed :
       (cfg.clone /\ e.kind = "value" /\ SizeOf(e.of) > 0) =>
         \/ AboutToClone(e.t, e.of)
         \/ \E x \in hist.cloned : Step(x) = Step(e)
  /\ \A t \in Threads :
       wk[t].pc = "clone" =>
         [of |-> <<wk[t].page, wk[t].idx>>, t |-> t, kind |-> "value"] \in hist.probed
  /\ ~cfg.clone =>
       /\ hist.cloned \cup AfterProbe = {}
       /\ disk = {}
       /\ \A t \in Threads : wk[t].pc \notin {"clone", "scan", "hook", "clean"}

\* clone enabled: of the three repositories probed one was cloned, one had
\* no content and one had a probe that failed; neither of these two was cloned
C23_Witness ==
  /\ cfg.clone
  /\ \E e, f, g \in hist.probed :
       /\ e.kind = "value" /\ SizeOf(e.of) > 0
       /\ \E x \in hist.cloned : Step(x) = Step(e)
       /\ f.kind = "value" /\ SizeOf(f.of) = 0
       /\ g.kind = "None"
       /\ \A x \in hist.cloned : Step(x) # Step(f) /\ Step(x) # Step(g)

ClonedOk(h, x) == [of |-> x.of, t |-> x.t, ok |-> TRUE] \in h.cloned
ScannedAs(h, x, relavant) ==
  [of |-> x.of, t |-> x.t, relavant |-> relavant] \in h.scanned

\* what has happened to every repository is in pipeline order: cloned only
\* if probed, scanned only if cloned with success and the pattern is not
\* empty, passed to the hook or cleaned up only if scanned; with an empty
\* pattern nothing is scanned, passed to the hook or removed
C24_Steps ==
  /\ \A x \in hist.cloned :
       [of |-> x.of, t |-> x.t, kind |-> "value"] \in hist.probed
  /\ \A x \in hist.scanned : ClonedOk(hist, x) /\ cfg.sourceStatements # ""
  /\ \A x \in hist.hooked : ScannedAs(hist, x, TRUE)
  /\ \A x \in hist.cleaned : ScannedAs(hist, x, FALSE)
  /\ cfg.sourceStatements = "" =>
       /\ AfterProbe = {}
       /\ \A x \in hist.materialized : CopyOf(x.of) \in disk

\* every step of the pipeline is taken after the step before it has returned
C24_StepAfterStep ==
  /\ \A x \in hist.cloned' \ hist.cloned :
       [of |-> x.of, t |-> x.t, kind |-> "value"] \in hist.probed
  /\ \A x \in hist.scanned' \ hist.scanned : ClonedOk(hist, x)
  /\ \A x \in hist.hooked' \ hist.hooked : ScannedAs(hist, x, TRUE)
  /\ \A x \in hist.cleaned' \ hist.cleaned : ScannedAs(hist, x, FALSE)

\* C24: for every repository the steps occur in the order probe, clone,
\* scan, then hook or cleanup; the scanner runs only after a successful
\* clone and only with a non-empty pattern, the hook or the cleanup only
\* after the scanner; with an empty pattern a cloned copy is neither
\* scanned, nor passed to the hook, nor removed.
C24_PipelineOrder == [](C24_Steps) /\ [][C24_StepAfterStep]_vars

\* a run with a pattern in which one copy went to the hook, one was
\* cleaned up and one clone failed
C24_Witness ==
  /\ cfg.sourceStatements # ""
  /\ hist.hooked # {}
  /\ hist.cleaned # {}
  /\ \E x \in hist.cloned : ~x.ok

\* C25: every data row of the report has as many fields as the header row:
\* one per metadata header and one per language other than the sentinel.
C25_RowAsLongAsHeader ==
  \A i \in DataRows(report) :
    /\ Len(report[i].cells) = Len(report[1].cells)
    /\ Len(report[i].cells) = Len(Headers) + Len(Languages) - 1

----------------------------------------------------------------------------
(* C26: retry state is local to each call *)

\* the smaller of two numbers
Min(a, b) == IF a < b THEN a ELSE b

\* the retry locals of the running call are a function of what the remote
\* side did to this call alone
OwnFailuresOnly(st) ==
  /\ st.currentAttempt = call.failed
  /\ st.sleeps = Min(call.failed, maxAttempts)
  /\ (st.status = "returned" /\ ~st.successful) => call.failed = maxAttempts + 1

\* C26: every call of _makeAPICall and of _cloneRepository starts with the
\* attempt counter at 0 and nothing left of the call before; at every moment
\* the counter and the sleeps of the running call count the failures of this
\* call only, and the call is abandoned only after maxAttempts + 1 failures
\* of its own, whatever the earlier calls consumed
C26_RetryStateIsLocal ==
  /\ call.fed = 0 => (call.st = ApiLocals /\ call.cl = CloneLocals)
  /\ OwnFailuresOnly(call.st)
  /\ OwnFailuresOnly(call.cl)

\* C26 witness: the call before was abandoned (it consumed maxAttempts + 1
\* failures), and this call has succeeded after maxAttempts failures of its
\* own
C26_Witness ==
  /\ call.n = 2
  /\ call.spent = maxAttempts + 1
  /\ call.failed = maxAttempts
  /\ call.st.status = "returned" /\ call.st.successful
  /\ call.cl.status = "returned" /\ call.cl.successful

----------------------------------------------------------------------------
(* C28: the tolerated errors of git clone *)

\* the two messages of git that _cloneRepository does not count as a failure
BenignErrors == {"fatal: destination path", "error: unable to write sha1"}

\* one clone attempt of the running call ends with the stderr `error`
CloneAttemptEndsWith(error) ==
  /\ call.cl.status = "loop"
  /\ call'.n = call.n
  /\ call'.fed = call.fed + 1
  /\ call'.error = error

\* C28: a clone attempt whose stderr is "fatal: destination path ..." or
\* "error: unable to write sha1 ..." ends _cloneRepository with True: the
\* attempt counter is not advanced and there is no sleep
C28_BenignErrorIsSuccess ==
  [][\A error \in BenignErrors :
       CloneAttemptEndsWith(error) =>
         /\ call'.cl.status = "returned"
         /\ call'.cl.successful
         /\ call'.cl.currentAttempt = call.cl.currentAttempt
         /\ call'.cl.sleeps = call.cl.sleeps]_vars

\* C28 witness: after two failed attempts the third one finds the destination
\* path present: the clone has returned True with the counter and the sleeps
\* of the two failures
C28_Witness ==
  /\ call.error = "fatal: destination path"
  /\ call.failed = 2
  /\ call.cl.status = "returned" /\ call.cl.successful
  /\ call.cl.currentAttempt = 2 /\ call.cl.sleeps = 2

----------------------------------------------------------------------------
(* C27: remote operations return and the crawl loops end *)

\* worker t has left crawlRepositories by the end of its loop
LoopEnded(t) == wk[t].pc = "done"

\* C27: under fairness of the workers' steps, every page fetch, language
\* probe and clone of a started worker returns to the crawl loop, with a
\* result or with the None / False of exhausted retries, also against a
\* remote side that fails for ever, and as the service has finitely many
\* non-empty pages the worker's loop comes to its end
C27_OperationsReturnAndLoopsEnd ==
  \A t \in Threads : (t \in Started) ~> LoopEnded(t)

----------------------------------------------------------------------------
(* C29: the metadata cells of a row *)

\* the metadata segment of a row: the cells that follow the language cells
MetadataSegment(row) ==
  SubSeq(row.cells, Len(Languages) + 1, Len(row.cells))

\* the summary a row was built from, as the pipeline holds it when the row
\* is built (uniqueName added, url rewritten for the clone)
SummaryOfRow(row) == Prepare(Summary(row.of[1], row.of[2]))

\* C29: in every data row of the report the metadata segment has one cell
\* per header field, in the order of the headers: the text of a field of
\* the summary that is a string, the raw value of a field that is not, and
\* 0 for a field the summary does not have
C29_MetadataSegment ==
  \A i \in DataRows(report) :
    LET seg == MetadataSegment(report[i])
        repository == SummaryOfRow(report[i])
    IN
    /\ Len(seg) = Len(Headers)
    /\ \A j \in 1..Len(Headers) :
         LET info == Headers[j] IN
         IF info \in DOMAIN repository
           THEN IF repository[info].t \in {"unicode", "str"}
                  THEN seg[j].t = "str" /\ seg[j].s = repository[info].s
                  ELSE seg[j] = repository[info]
           ELSE seg[j] = PyInt(0)

\* C29 witness: the report holds a row whose metadata segment shows the
\* three cases: "created" (absent from the summary) is 0, "fork" is the raw
\* boolean, "name" is the encoded string
C29_Witness ==
  \E i \in DataRows(report) :
    LET seg == MetadataSegment(report[i]) IN
    /\ Len(seg) = Len(Headers)
    /\ seg[1] = PyInt(0)
    /\ seg[5] = PyBool(TRUE)
    /\ seg[12] = PyStr(RepoName(report[i].of[1], report[i].of[2]))

----------------------------------------------------------------------------
(* C30: the number of retries the docstring of _makeAPICall gives *)

\* C30: a failing API call is retried after a sleep of 60 seconds at most
\* DocstringRetries (5) times, and a call that gives up returns None after
\* exactly that many retries
C30_RetriedAsDocstringSays ==
  /\ call.st.sleeps <= DocstringRetries
  /\ (call.st.status = "returned" /\ ~call.st.successful) =>
       /\ call.st.sleeps = DocstringRetries
       /\ call.st.data = None

----------------------------------------------------------------------------
(* C31: a successful clone and the content of the directory *)

\* the directory of the repository's uniqueName holds, in the given state
\* of the working directory, nothing but the repository's own copy
OwnContentOnly(d, of) == \A c \in d : c[1] = DirOf(of) => c = CopyOf(of)

\* C31: when _cloneRepository returns True for a repository, the directory
\* of its uniqueName holds the copy cloned from its url, and when the
\* scanner gives its verdict for a repository, the directory it has searched
\* holds that repository's content and no other; for every sequence of
\* repositories and any number of workers in one working directory
C31_CloneSuccessMeansOwnContent ==
  [][/\ \A x \in hist'.cloned \ hist.cloned :
          x.ok => (CopyOf(x.of) \in disk' /\ OwnContentOnly(disk', x.of))
     /\ \A x \in hist'.scanned \ hist.scanned :
          OwnContentOnly(disk, x.of)]_vars

----------------------------------------------------------------------------
(* C32: a retained copy stays *)

\* the repositories whose materialized copy is kept after a match: the hook
\* has been invoked on it and the copy is in the working directory
Retained(h, d) ==
  {e \in h.hooked : e \in h.materialized /\ CopyOf(e.of) \in d}

----------------------------------------------------------------------------
(* C33: the header row and one row per kept repository *)

\* a report handler has been constructed: the report file has been written
ReportReady == \E t \in Threads : wk[t].pc \notin {"unstarted", "task"}

\* worker t has kept the repository (its probe answered and its total size
\* is positive) and has appended the batch of its page
KeptAndAppended(t, of) ==
  /\ [of |-> of, t |-> t, kind |-> "value"] \in hist.probed
  /\ SizeOf(of) > 0
  /\ \E j \in 1..Len(hist.appended[t]) : hist.appended[t][j].page = of[1]

\* C33: in every state the first row of the report is the header row and
\* no other row is a header row; every repository that a worker has kept
\* and appended with its page has exactly one row in the report, and every
\* data row of the report is the row of such a repository
C33_HeaderOnceOneRowPerKept ==
  /\ ReportReady =>
       /\ Len(report) >= 1
       /\ report[1].cells = HeaderRow
       /\ \A i \in 2..Len(report) : report[i].cells # HeaderRow
  /\ \A t \in Threads, p \in 1..MaxPages, k \in 1..PageSize :
       KeptAndAppended(t, <<p, k>>) => Cardinality(RowsOf(<<p, k>>)) = 1
  /\ \A i \in DataRows(report) :
       \E t \in Threads : KeptAndAppended(t, report[i].of)

====
